---- MODULE Spec2Model ----
(***************************************************************************)
(* Model of the VRA reconciliation engine (src/src/vra/reconciliation.py), *)
(* the Gemini comparison client (src/src/vra/vlm.py) and the protocol      *)
(* write-back (src/src/vra/pdf_protocol.py).                               *)
(*                                                                         *)
(* Confidences and thresholds are percentages (0.90 is 90).  An optional   *)
(* value is a sequence of length at most one (<<>> is None).  A JSON value *)
(* is a record [t, b, s, n]: its type tag and its boolean, string or       *)
(* numeric content.                                                        *)
(***************************************************************************)
EXTENDS Integers, Sequences, FiniteSets, TLC

VARIABLES
    pc,              \* position of run_reconciliation
    test_id,         \* --test-id
    protocol_doc,    \* the master PDF: [header, n, layout]
    report_blocks,   \* extract_report_blocks(report_pdf): sequence of <<repeat_id, difference_id>>
    threshold,       \* confidence threshold, in percent
    repeat_id,       \* outer loop variable
    difference_id,   \* inner loop variable
    rows,            \* List[ReconciliationRow]
    decisions,       \* the write-back mapping, a set of <<key, export value>>
    fields,          \* the widgets of protocol_reconciled.pdf, by record number, once saved
    vlm,             \* the VLMClient: api_key, cache_enabled, max_retries, _cache
    call,            \* the compare call in progress or last finished
    prev,            \* the compare call finished before it
    ncalls,          \* number of compare calls started
    progress_callback, \* whether run_reconciliation was given a progress callback
    progress,        \* the calls of the progress callback: <<completed, total, decision>>
    out_csv,         \* reconciliation_log.csv: header and rows, once written
    out_exceptions,  \* exceptions.csv: header and rows, once written
    opened,          \* whether extract_protocol_rows has opened the master PDF
    error,           \* the exception run_reconciliation raised to its caller, "" when none
    cache_file,      \* the file at VLM_CACHE_PATH
    run,             \* 1 in the first run over the documents, 2 in the run repeated after it
    rows1,           \* the rows of the first run, once it is over
    net,             \* the network attempts of the runs: <<run, key, "answered" or "failed">>
    min_seconds_between_calls, \* GEMINI_MIN_SECONDS_BETWEEN_CALLS, in ticks
    now,             \* time.time(), in ticks
    last_request_at, \* VLMClient._last_request_at, in ticks
    issued,          \* the requests sent, oldest first: [at, stamped]
    report_pages     \* the pages of a report PDF given to extract_report_blocks

vars == <<pc, test_id, protocol_doc, report_blocks, threshold, repeat_id,
          difference_id, rows, decisions, fields, vlm, call, prev, ncalls,
          progress_callback, opened, error, progress, out_csv, out_exceptions,
          cache_file, run, rows1, net, min_seconds_between_calls, now,
          last_request_at, issued, report_pages>>

\* what only the repeated run, the throttle and the report extraction change
rerunVars == <<run, rows1>>
timeVars == <<min_seconds_between_calls, now, last_request_at, issued>>

engineVars == <<pc, test_id, protocol_doc, report_blocks, threshold, repeat_id,
                difference_id, rows, decisions, fields,
                progress_callback, opened, error, progress, out_csv, out_exceptions>>

-----------------------------------------------------------------------------
(* Bounds of the model *)

MaxBlocks == 2          \* report blocks in the report PDF
MaxRetriesBound == 2    \* largest GEMINI_MAX_RETRIES tried
MaxCalls == 2           \* compare calls made on one stand-alone client
MaxItems == 2           \* section markers and difference labels on one page

(* Program constants *)

NumRepeats == 4
NumDifferences == 19
RowsPerRepeat == 19
\* int(os.getenv("GEMINI_MAX_RETRIES", "2"))
DefaultMaxRetries == 2
\* time is counted in ticks of a quarter of a second
TicksPerSecond == 4
\* GEMINI_MIN_SECONDS_BETWEEN_CALLS defaults to 0.5
DefaultMinSeconds == 2

EXPECTED_REPEATS == 1..NumRepeats
EXPECTED_DIFFERENCE_IDS == 1..NumDifferences

None == <<>>
Some(v) == <<v>>

-----------------------------------------------------------------------------
(* JSON values *)

JMissing == [t |-> "missing", b |-> FALSE, s |-> "", n |-> 0]
JNull == [t |-> "null", b |-> FALSE, s |-> "", n |-> 0]
JBool(x) == [t |-> "bool", b |-> x, s |-> "", n |-> 0]
JStr(x) == [t |-> "str", b |-> FALSE, s |-> x, n |-> 0]
JNum(x) == [t |-> "num", b |-> FALSE, s |-> "", n |-> x]
JList == [t |-> "list", b |-> FALSE, s |-> "", n |-> 0]

\* str.strip().lower() on the spellings the model uses
StripLower(s) ==
    CASE s = " Yes " -> "yes"
      [] s = "FALSE" -> "false"
      [] s = "  " -> ""
      [] OTHER -> s

\* float(str): the numeric spellings the model uses, in percent
IsNumericStr(s) == s \in {"0.95", "0.5"}
FloatOfStr(s) == IF s = "0.95" THEN 95 ELSE 50

-----------------------------------------------------------------------------
(* vlm.py: results, payload coercion, cache entries *)

ComparisonResult(m, r, c) == [match |-> m, reason |-> r, confidence |-> c]

MissingReportCrops ==
    ComparisonResult(FALSE, <<"Missing report crops for this repeat/difference.">>, Some(0))
MissingProtocolCrops ==
    ComparisonResult(FALSE, <<"Missing protocol crops for this repeat/difference.">>, Some(0))
NotConfigured ==
    ComparisonResult(FALSE, <<"Gemini API key not configured (set GEMINI_API_KEY).">>, Some(0))
NoTextPayload ==
    ComparisonResult(FALSE, <<"Gemini returned no text payload for comparison.">>, Some(0))
ParsingFailed(exc) ==
    ComparisonResult(FALSE, <<"Gemini response parsing failed", exc>>, Some(0))
RequestFailed(last_error) ==
    ComparisonResult(FALSE, <<"Gemini API request failed">> \o last_error, Some(0))

TrueTokens == {"true", "yes", "1"}
FalseTokens == {"false", "no", "0"}

DefaultReason == "Model response did not include reason."

\* _coerce_comparison_payload on a parsed object with these three fields:
\* [status: "ok" | "ValueError" | "TypeError", match, reason, confidence]
CoerceMatchRejected(raw_match) ==
    \/ raw_match.t = "missing"
    \/ /\ raw_match.t = "str"
       /\ StripLower(raw_match.s) \notin (TrueTokens \cup FalseTokens)
CoerceMatchValue(raw_match) ==
    CASE raw_match.t = "bool" -> raw_match.b
      [] raw_match.t = "str" -> StripLower(raw_match.s) \in TrueTokens
      [] raw_match.t = "num" -> raw_match.n # 0
      [] raw_match.t = "list" -> TRUE
      [] OTHER -> FALSE
CoerceReason(raw_reason) ==
    CASE raw_reason.t = "str" /\ StripLower(raw_reason.s) # "" -> raw_reason.s
      [] OTHER -> DefaultReason
CoerceError(exc) ==
    [status |-> exc, match |-> FALSE, reason |-> "", confidence |-> None]
_coerce_comparison_payload(parsed) ==
    IF CoerceMatchRejected(parsed.match) THEN CoerceError("ValueError")
    ELSE CASE parsed.confidence.t \in {"missing", "null"} ->
                [status |-> "ok", match |-> CoerceMatchValue(parsed.match),
                 reason |-> CoerceReason(parsed.reason), confidence |-> None]
           [] parsed.confidence.t = "num" ->
                [status |-> "ok", match |-> CoerceMatchValue(parsed.match),
                 reason |-> CoerceReason(parsed.reason),
                 confidence |-> Some(parsed.confidence.n)]
           [] parsed.confidence.t = "str" ->
                IF IsNumericStr(parsed.confidence.s)
                THEN [status |-> "ok", match |-> CoerceMatchValue(parsed.match),
                      reason |-> CoerceReason(parsed.reason),
                      confidence |-> Some(FloatOfStr(parsed.confidence.s))]
                ELSE CoerceError("ValueError")
           [] parsed.confidence.t = "bool" ->
                [status |-> "ok", match |-> CoerceMatchValue(parsed.match),
                 reason |-> CoerceReason(parsed.reason),
                 confidence |-> Some(IF parsed.confidence.b THEN 100 ELSE 0)]
           [] OTHER -> CoerceError("TypeError")

\* result.confidence = max(0.0, min(1.0, float(result.confidence)))
Min(a, b) == IF a < b THEN a ELSE b
Max(a, b) == IF a > b THEN a ELSE b
ClampConfidence(c) == IF c = None THEN None ELSE Some(Max(0, Min(100, c[1])))

\* result.model_dump(): the dict stored in the cache
ModelDumpNoConfidence(result) ==
    [match |-> JBool(result.match), reason |-> JStr(result.reason[1]), confidence |-> JNull]
ModelDump(result) ==
    [match |-> JBool(result.match), reason |-> JStr(result.reason[1]),
     confidence |-> IF result.confidence = None THEN JNull
                    ELSE JNum(result.confidence[1])]

\* ComparisonResult.model_validate(dict): pydantic accepts a bool (or a 0/1 number
\* or a boolean word) for match, a string for reason, a number, a numeric string
\* or nothing for confidence, and raises ValidationError otherwise
PydanticBoolWords == {"true", "false", "yes", "no", "1", "0", "on", "off", "t", "f", "y", "n"}
PydanticTrueWords == {"true", "yes", "1", "on", "t", "y"}
ModelValidateOk(entry) ==
    /\ \/ entry.match.t = "bool"
       \/ entry.match.t = "num" /\ entry.match.n \in {0, 1}
       \/ entry.match.t = "str" /\ entry.match.s \in PydanticBoolWords
    /\ entry.reason.t = "str"
    /\ \/ entry.confidence.t \in {"missing", "null", "num"}
       \/ entry.confidence.t = "str" /\ IsNumericStr(entry.confidence.s)
ModelValidate(entry) ==
    ComparisonResult(
        CASE entry.match.t = "bool" -> entry.match.b
          [] entry.match.t = "num" -> entry.match.n = 1
          [] OTHER -> entry.match.s \in PydanticTrueWords,
        <<entry.reason.s>>,
        CASE entry.confidence.t = "num" -> Some(entry.confidence.n)
          [] entry.confidence.t = "str" -> Some(FloatOfStr(entry.confidence.s))
          [] OTHER -> None)

-----------------------------------------------------------------------------
(* vlm.py: images, cache key, cache *)

VLM_CACHE_VERSION == <<"v", "2">>
ModelName == <<"g">>

\* an Optional[Path] argument of compare: None, a path whose file cannot be
\* read, or a path to a file with these bytes
NoImage == [kind |-> "none", bytes |-> <<>>]
Unreadable == [kind |-> "unreadable", bytes |-> <<>>]
File(bytes) == [kind |-> "file", bytes |-> bytes]

\* the four arguments, in the order of the signature
Images(pq_master, pq_sample, report_master, report_sample) ==
    [pq_master |-> pq_master, pq_sample |-> pq_sample,
     report_master |-> report_master, report_sample |-> report_sample]

AllReadable(imgs) ==
    /\ imgs.pq_master.kind = "file"
    /\ imgs.pq_sample.kind = "file"
    /\ imgs.report_master.kind = "file"
    /\ imgs.report_sample.kind = "file"

\* sha256 over the version tag, the model name and the bytes of the four
\* files, fed to the hasher one after the other: the digest of their
\* concatenation
_cache_key(model_name, imgs) ==
    VLM_CACHE_VERSION \o model_name \o imgs.pq_master.bytes \o imgs.pq_sample.bytes
        \o imgs.report_master.bytes \o imgs.report_sample.bytes

EmptyCache == << >>
CachePut(cache, key, entry) ==
    [k \in (DOMAIN cache) \cup {key} |-> IF k = key THEN entry ELSE cache[k]]

\* the file at cache_path: absent, not a JSON object, or a JSON object whose
\* values are dicts (dict = TRUE) or something else
NoCacheFile == [kind |-> "absent", entries |-> << >>]
GarbageCacheFile == [kind |-> "garbage", entries |-> << >>]
CacheFile(entries) == [kind |-> "object", entries |-> entries]
FileValue(dict, value) == [dict |-> dict, value |-> value]

\* _load_cache: the dict values of the file's object, nothing when caching is
\* disabled or the file is absent or unreadable as a JSON object
_load_cache_nothing(cache_enabled, file) == EmptyCache
_load_cache(cache_enabled, file) ==
    IF ~cache_enabled \/ file.kind # "object" THEN EmptyCache
    ELSE [k \in {e \in DOMAIN file.entries : file.entries[e].dict} |-> file.entries[k].value]

\* _save_cache: json.dumps(self._cache) replaces the file
\* write_text opens the file for writing, which empties it, and then writes the
\* text: until the text is complete the file holds a prefix of it, which is no JSON
_save_cache_interrupted(cache, file) == GarbageCacheFile
_save_cache(cache, file) ==
    CacheFile([k \in DOMAIN cache |-> FileValue(TRUE, cache[k])])

-----------------------------------------------------------------------------
(* vlm.py: what one network attempt can come to *)

\* the body of an HTTP 200 response, as far as lines 308-321 look at it:
\*   "badjson"        the body is not JSON (json.loads raises JSONDecodeError)
\*   "notobject"      the body is JSON but no object (payload.get raises AttributeError)
\*   "empty"          no candidate carries text or a json part
\*   "text_malformed" the text survives none of the parses of _parse_model_json
\*   "text_nonobject" the text parses to something that is no object
\*   "obj"            an object with these match, reason and confidence fields
Body(kind, m, r, c) == [kind |-> kind, match |-> m, reason |-> r, confidence |-> c]
NoBody == Body("none", JMissing, JMissing, JMissing)

HttpError(code) == [t |-> "http", code |-> code, body |-> NoBody]
URLError == [t |-> "urlerror", code |-> 0, body |-> NoBody]
Timeout == [t |-> "timeout", code |-> 0, body |-> NoBody]
Response(body) == [t |-> "body", code |-> 200, body |-> body]
NoOutcome == [t |-> "none", code |-> 0, body |-> NoBody]

ErrorName(outcome) ==
    CASE outcome.t = "http" /\ outcome.code = 429 -> "HTTP Error 429: Too Many Requests"
      [] outcome.t = "http" -> "HTTP Error 500: Internal Server Error"
      [] outcome.t = "urlerror" -> "<urlopen error>"
      [] OTHER -> "timed out"

\* the exception lines 308-322 raise on this body, "" when they raise none
BodyException(body) ==
    CASE body.kind = "badjson" -> "JSONDecodeError"
      [] body.kind = "notobject" -> "AttributeError"
      [] body.kind = "text_malformed" -> "JSONDecodeError"
      [] body.kind = "text_nonobject" -> "ValueError"
      [] body.kind = "obj" /\ _coerce_comparison_payload(body).status # "ok" ->
            _coerce_comparison_payload(body).status
      [] OTHER -> ""

\* except (json.JSONDecodeError, ValueError, SyntaxError)
CaughtAsParseFailure(exc) == exc \in {"JSONDecodeError", "ValueError", "SyntaxError"}

\* lines 321-324: the result of a body that parses
ParsedResult(body) ==
    ComparisonResult(_coerce_comparison_payload(body).match,
                     <<_coerce_comparison_payload(body).reason>>,
                     ClampConfidence(_coerce_comparison_payload(body).confidence))

\* except HTTPError: retried when the code is 429; except (URLError, TimeoutError): retried
RetryableAnyHttp(outcome) == outcome.t \in {"http", "urlerror", "timeout"}
Retryable(outcome) ==
    \/ outcome.t = "http" /\ outcome.code = 429
    \/ outcome.t \in {"urlerror", "timeout"}

\* time.sleep(2**attempt)
BackoffSeconds(attempt) == 2 ^ attempt

\* _throttle, lines 206-211: the time at which it returns when called at time t
_throttle(min_seconds, last, t) ==
    IF min_seconds <= 0 THEN t
    ELSE IF t - last < min_seconds THEN t + (min_seconds - (t - last))
    ELSE t

\* lines 308-309, 331, 338: whether the attempt reaches an assignment to
\* _last_request_at; json.loads raises before line 309 on a body that is no JSON
StampsLastRequest(outcome) ==
    outcome.t # "body" \/ outcome.body.kind # "badjson"

-----------------------------------------------------------------------------
(* vlm.py: VLMClient.compare, as the call record it leaves: the arguments,  *)
(* the loop variable attempt, the number of network attempts and _throttle *)
(* calls made, the time.sleep back-offs, what the last attempt came to,    *)
(* last_error, whether the cache was looked up and written, and how the    *)
(* call ended (source, result or exc)                                      *)

IdleCall ==
    [status |-> "idle", images |-> Images(NoImage, NoImage, NoImage, NoImage),
     cache_key |-> <<>>, attempt |-> 0, attempts |-> 0, throttles |-> 0,
     backoff |-> <<>>, outcome |-> NoOutcome, last_error |-> None, source |-> "none",
     exc |-> "", cache_read |-> FALSE, cache_written |-> FALSE,
     result |-> MissingReportCrops]

Returned(c, source, result) ==
    [c EXCEPT !.status = "returned", !.source = source, !.result = result]
Raised(c, exc) ==
    [c EXCEPT !.status = "raised", !.exc = exc]

\* lines 220-241: the pre-checks, the cache key and the cache lookup
CompareEnterCacheFirst(client, imgs) ==
    LET c == [IdleCall EXCEPT !.images = imgs] IN
    IF imgs.report_master.kind = "none" \/ imgs.report_sample.kind = "none"
    THEN Returned(c, "missing_report", MissingReportCrops)
    ELSE IF imgs.pq_master.kind = "none" \/ imgs.pq_sample.kind = "none"
    THEN Returned(c, "missing_protocol", MissingProtocolCrops)
    ELSE IF ~AllReadable(imgs)
    THEN Raised(c, "OSError")
    ELSE LET key == _cache_key(client.model_name, imgs)
             k == [c EXCEPT !.cache_key = key, !.cache_read = client.cache_enabled]
         IN IF client.cache_enabled /\ key \in DOMAIN client.cache
            THEN IF ModelValidateOk(client.cache[key])
                 THEN Returned(k, "cache", ModelValidate(client.cache[key]))
                 ELSE Raised(k, "ValidationError")
            ELSE IF ~client.api_key
            THEN Returned(c, "not_configured", NotConfigured)
            ELSE [k EXCEPT !.status = "running"]
CompareEnter(client, imgs) ==
    LET c == [IdleCall EXCEPT !.images = imgs] IN
    IF imgs.report_master.kind = "none" \/ imgs.report_sample.kind = "none"
    THEN Returned(c, "missing_report", MissingReportCrops)
    ELSE IF imgs.pq_master.kind = "none" \/ imgs.pq_sample.kind = "none"
    THEN Returned(c, "missing_protocol", MissingProtocolCrops)
    ELSE IF ~client.api_key
    THEN Returned(c, "not_configured", NotConfigured)
    ELSE IF ~AllReadable(imgs)
    THEN Raised(c, "OSError")
    ELSE LET key == _cache_key(client.model_name, imgs)
             k == [c EXCEPT !.cache_key = key, !.cache_read = client.cache_enabled]
         IN IF client.cache_enabled /\ key \in DOMAIN client.cache
            THEN IF ModelValidateOk(client.cache[key])
                 THEN Returned(k, "cache", ModelValidate(client.cache[key]))
                 ELSE Raised(k, "ValidationError")
            ELSE [k EXCEPT !.status = "running"]

\* lines 304-348: one pass of the retry loop, and lines 350-354 when it is the last
CompareAttempt(client, c, outcome) ==
    LET a == [c EXCEPT !.attempts = @ + 1, !.throttles = @ + 1, !.outcome = outcome]
    IN IF outcome.t = "body"
       THEN IF outcome.body.kind = "empty"
            THEN Returned(a, "no_text", NoTextPayload)
            ELSE IF BodyException(outcome.body) = ""
            THEN Returned([a EXCEPT !.cache_written = client.cache_enabled],
                          "network", ParsedResult(outcome.body))
            ELSE IF CaughtAsParseFailure(BodyException(outcome.body))
            THEN Returned(a, "parse_failed", ParsingFailed(BodyException(outcome.body)))
            ELSE Raised(a, BodyException(outcome.body))
       ELSE LET e == [a EXCEPT !.last_error = Some(ErrorName(outcome))]
            IN IF Retryable(outcome) /\ c.attempt < client.max_retries
               THEN [e EXCEPT !.backoff = Append(@, BackoffSeconds(c.attempt)),
                              !.attempt = @ + 1]
               ELSE Returned(e, "request_failed", RequestFailed(e.last_error))

\* the store moved out of the success path: every returned result is stored
CacheAfterAnyReturn(client, c, after) ==
    IF after.status = "returned" /\ after.cache_key # <<>> /\ client.cache_enabled
    THEN CachePut(client.cache, c.cache_key, ModelDump(after.result))
    ELSE client.cache
\* lines 325-327: self._cache[cache_key] = result.model_dump()
CacheAfter(client, c, after) ==
    IF after.status = "returned" /\ after.source = "network" /\ client.cache_enabled
    THEN CachePut(client.cache, c.cache_key, ModelDump(after.result))
    ELSE client.cache
\* line 327: self._save_cache()
CacheFileAfter(client, c, after, file) ==
    IF after.status = "returned" /\ after.source = "network" /\ client.cache_enabled
    THEN _save_cache(CacheAfter(client, c, after), file)
    ELSE file

-----------------------------------------------------------------------------
(* pdf_protocol.py: the master PDF, its rows and its radio widgets *)

SupportedTestId == "4.1-6"

\* row_counter -> (repeat_id, difference_id)
KeyOf(n) == <<((n - 1) \div RowsPerRepeat) + 1, ((n - 1) % RowsPerRepeat) + 1>>

\* the exception extract_protocol_rows raises, "" when it returns the rows
ExtractErrorHeaderFirst(doc, tid) ==
    CASE ~doc.header -> "RuntimeError: header"
      [] doc.n = 0 -> "RuntimeError: no rows"
      [] tid # SupportedTestId -> "ValueError"
      [] OTHER -> ""
ExtractError(doc, tid) ==
    CASE tid # SupportedTestId -> "ValueError"
      [] ~doc.header -> "RuntimeError: header"
      [] doc.n = 0 -> "RuntimeError: no rows"
      [] OTHER -> ""

\* protocol_lookup / row_lookup: the record numbers 1..n, by key
HasProtocolRow(doc, key) == \E n \in 1..doc.n : KeyOf(n) = key
ProtocolRowOf(doc, key) == CHOOSE n \in 1..doc.n : KeyOf(n) = key

\* the widgets of the radio group of record n in the input PDF: the states
\* button_states()["normal"] lists and the authored field_value
Widget(states, value) == [states |-> states, field_value |-> value]
InputWidgets(doc, n) ==
    IF doc.layout = "full"
    THEN <<Widget({"PASS", "Off"}, "Off"), Widget({"FAIL", "Off"}, "Off"),
           Widget({"N#2FA", "Off"}, "Off")>>
    ELSE CASE n % 3 = 1 -> <<Widget({"PASS", "Off"}, "Off"), Widget({"FAIL", "Off"}, "FAIL"),
                             Widget({"N#2FA", "Off"}, "Off")>>
           [] n % 3 = 2 -> <<Widget({"PASS", "Off"}, "Off"), Widget({"N#2FA", "Off"}, "N#2FA")>>
           [] OTHER -> <<Widget({"FAIL", "Off"}, "Off"), Widget({"Off"}, "Off")>>
InputFields(doc) == [n \in 1..doc.n |-> InputWidgets(doc, n)]
\* protocol_reconciled.pdf before doc.save writes it
NoDocument == <<>>

\* lines 199-205: every widget of the row's group that offers export_value takes it
SetWidgetAlways(widget, export_value) == [widget EXCEPT !.field_value = export_value]
SetWidget(widget, export_value) ==
    IF export_value \in widget.states
    THEN [widget EXCEPT !.field_value = export_value]
    ELSE widget
SetGroup(widgets, export_value) ==
    [i \in DOMAIN widgets |-> SetWidget(widgets[i], export_value)]

\* apply_pass_fail_value: decs is a set of <<key, export value>>, one per key
\* (the values of a decisions dict are Decision values)
DecisionValues == {"PASS", "FAIL", "N#2FA", "UNSET"}
apply_pass_fail_value(doc, decs) ==
    [n \in 1..doc.n |->
        LET k == KeyOf(n)
            mine == {v \in DecisionValues : <<k, v>> \in decs}
        IN IF mine = {} THEN InputWidgets(doc, n)
           ELSE SetGroup(InputWidgets(doc, n), CHOOSE v \in mine : TRUE)]

-----------------------------------------------------------------------------
(* pdf_report.py: the report blocks *)

\* A page of the report is the sequence of its section markers ("Repeat ID n")
\* and difference labels ("Difference ID: d") from top to bottom, which is also
\* their order in page.get_text()
Marker(n) == [kind |-> "marker", n |-> n]
Label(d) == [kind |-> "label", n |-> d]
IsMarker(item) == item.kind = "marker"
IsLabel(item) == item.kind = "label"

\* RE_REPEAT.search(text): the first marker of the page, None when it has none
RepeatMatch(page) ==
    IF \E i \in DOMAIN page : IsMarker(page[i])
    THEN Some(page[CHOOSE i \in DOMAIN page :
                      IsMarker(page[i]) /\ \A j \in 1..(i - 1) : ~IsMarker(page[j])].n)
    ELSE None
\* lines 34-35
CurrentRepeatAfter(page, current_repeat) ==
    IF RepeatMatch(page) # None THEN RepeatMatch(page) ELSE current_repeat
\* lines 37-44: the labels of the page, sorted by the top of their rectangle
PageDiffs(page) == SelectSeq(page, IsLabel)
\* line 61: current_repeat or 1
RepeatOrOne(current_repeat) ==
    IF current_repeat = None \/ current_repeat[1] = 0 THEN 1 ELSE current_repeat[1]
\* lines 45-68: the blocks of one page
PageBlocks(page, current_repeat) ==
    [i \in DOMAIN PageDiffs(page) |->
        <<RepeatOrOne(current_repeat), PageDiffs(page)[i].n>>]

RECURSIVE ExtractFromPage(_, _, _)
ExtractFromPage(pages, page_idx, current_repeat) ==
    IF page_idx > Len(pages) THEN <<>>
    ELSE LET current == CurrentRepeatAfter(pages[page_idx], current_repeat)
         IN PageBlocks(pages[page_idx], current)
               \o ExtractFromPage(pages, page_idx + 1, current)
\* extract_report_blocks: the <<repeat_id, difference_id>> of the blocks, in order
extract_report_blocks(pages) == ExtractFromPage(pages, 1, None)

\* build_report_lookup: the last block of a key wins
HasReportBlock(blocks, key) == \E i \in DOMAIN blocks : blocks[i] = key
ReportBlockOf(blocks, key) ==
    CHOOSE i \in DOMAIN blocks :
        blocks[i] = key /\ \A j \in DOMAIN blocks : blocks[j] = key => j <= i
ReportKeys(blocks) == {blocks[i] : i \in DOMAIN blocks}

\* a bug: the blocks counted without regard to their repeat
RepeatCountAll(blocks, r) == Len(blocks)
\* repeat_counts.get(repeat_id, 0)
RepeatCount(blocks, r) == Cardinality({i \in DOMAIN blocks : blocks[i][1] = r})

-----------------------------------------------------------------------------
(* reconciliation.py *)

ExpectedKeys == {<<r, d>> : r \in EXPECTED_REPEATS, d \in EXPECTED_DIFFERENCE_IDS}

ReconciliationRow(key, decision, match, confidence, reason, evidence, protocol_ref, report_ref) ==
    [repeat_id |-> key[1], difference_id |-> key[2], decision |-> decision,
     match |-> match, confidence |-> confidence, reason |-> reason,
     evidence |-> evidence, protocol_ref |-> protocol_ref, report_ref |-> report_ref]

\* protocol_row.page_index / radio_group_name if protocol_row else None
ProtocolRef(doc, key) ==
    IF HasProtocolRow(doc, key) THEN Some(ProtocolRowOf(doc, key)) ELSE None

\* lines 48-67
AutoPassRowFor(doc, key) ==
    ReconciliationRow(key, "PASS", TRUE, Some(100),
        <<"Auto-pass: report shows zero differences for this repeat.">>,
        <<"repeat_zero_differences">>, ProtocolRef(doc, key), None)

\* a bug: the missing-widget flag appended whether or not the protocol row exists
MissingDifferenceRowFlagged(doc, key) ==
    ReconciliationRow(key, "FAIL", FALSE, Some(100),
        <<"Missing difference in report for active repeat.">>,
        <<"missing_difference_id", "missing_protocol_widget">>,
        ProtocolRef(doc, key), None)
\* lines 78-98
MissingDifferenceRowFor(doc, key) ==
    ReconciliationRow(key, "FAIL", FALSE, Some(100),
        <<"Missing difference in report for active repeat.">>,
        <<"missing_difference_id">>
            \o (IF HasProtocolRow(doc, key) THEN <<>> ELSE <<"missing_protocol_widget">>),
        ProtocolRef(doc, key), None)

\* the bytes of the crop rendered for a key
PixelsOf(key) == IF (key[1] + key[2]) % 2 = 0 THEN <<"a">> ELSE <<"b">>

\* lines 110-150: the four crops; a protocol crop is rendered only when there is
\* a protocol row, a report crop always (both bboxes of a block are set)
RenderedCrops(doc, key) ==
    Images(IF HasProtocolRow(doc, key) THEN File(PixelsOf(key)) ELSE NoImage,
           IF HasProtocolRow(doc, key) THEN File(PixelsOf(key)) ELSE NoImage,
           File(PixelsOf(key)), File(PixelsOf(key)))

\* lines 158-160
EffectiveConfidence(comparison) ==
    IF comparison.confidence # None THEN comparison.confidence[1] ELSE 100

\* a bug: a strict comparison with the threshold
DecideStrict(has_protocol_row, comparison, thr) ==
    IF ~has_protocol_row THEN "UNSET"
    ELSE IF comparison.match /\ EffectiveConfidence(comparison) > thr THEN "PASS"
    ELSE IF EffectiveConfidence(comparison) > thr THEN "FAIL"
    ELSE "UNSET"
\* a bug: the oracle's verdict decides before the missing protocol row is looked at
DecideOracleFirst(has_protocol_row, comparison, thr) ==
    IF comparison.match /\ EffectiveConfidence(comparison) >= thr THEN "PASS"
    ELSE IF EffectiveConfidence(comparison) >= thr THEN "FAIL"
    ELSE "UNSET"
\* lines 161-175
Decide(has_protocol_row, comparison, thr) ==
    IF ~has_protocol_row THEN "UNSET"
    ELSE IF comparison.match /\ EffectiveConfidence(comparison) >= thr THEN "PASS"
    ELSE IF EffectiveConfidence(comparison) >= thr THEN "FAIL"
    ELSE "UNSET"
DecideReason(has_protocol_row, comparison) ==
    IF ~has_protocol_row
    THEN <<"Protocol row mapping missing for this repeat/difference; manual review required.">>
    ELSE comparison.reason

\* lines 177-202
EvidencePaths(imgs) ==
    (IF imgs.pq_master.kind # "none" THEN <<"pq_master.png">> ELSE <<>>)
    \o (IF imgs.pq_sample.kind # "none" THEN <<"pq_sample.png">> ELSE <<>>)
    \o (IF imgs.report_master.kind # "none" THEN <<"report_master.png">> ELSE <<>>)
    \o (IF imgs.report_sample.kind # "none" THEN <<"report_sample.png">> ELSE <<>>)
ComparedRowFor(doc, blocks, key, comparison, thr) ==
    ReconciliationRow(key,
        Decide(HasProtocolRow(doc, key), comparison, thr),
        comparison.match, comparison.confidence,
        DecideReason(HasProtocolRow(doc, key), comparison),
        <<"vlm_compare">> \o EvidencePaths(RenderedCrops(doc, key))
            \o (IF HasProtocolRow(doc, key) THEN <<>> ELSE <<"missing_protocol_widget">>),
        ProtocolRef(doc, key), Some(ReportBlockOf(blocks, key)))

\* lines 213-230: sorted(report_lookup.keys()) without the expected keys
KeyLess(k1, k2) == k1[1] < k2[1] \/ (k1[1] = k2[1] /\ k1[2] < k2[2])
MaxKey(ks) == CHOOSE k \in ks : \A o \in ks : o = k \/ KeyLess(o, k)
MinKey(ks) == CHOOSE k \in ks : \A o \in ks : o = k \/ KeyLess(k, o)
RECURSIVE SortedKeys(_)
SortedKeys(ks) ==
    IF ks = {} THEN <<>> ELSE <<MinKey(ks)>> \o SortedKeys(ks \ {MinKey(ks)})
ExtraRowFor(blocks, key) ==
    ReconciliationRow(key, "UNSET", FALSE, Some(100),
        <<"Informational: extra difference ID found in report.">>,
        <<"extra_difference_id">>, None, Some(ReportBlockOf(blocks, key)))
\* a bug: the extras loop without its `continue` for expected keys
ExtraKeysUnfiltered(blocks) == ReportKeys(blocks)
ExtraKeys(blocks) == ReportKeys(blocks) \ ExpectedKeys
ExtraRows(blocks) ==
    [i \in 1..Cardinality(ExtraKeys(blocks)) |->
        ExtraRowFor(blocks, SortedKeys(ExtraKeys(blocks))[i])]

\* lines 237-240: a dict, so the last PASS or FAIL row of a key is the one kept
RowKey(row) == <<row.repeat_id, row.difference_id>>
WrittenBack(row) == row.decision \in {"PASS", "FAIL"}
WriteBackDecisions(rs) ==
    LET written == {j \in DOMAIN rs : WrittenBack(rs[j])}
    IN IF Cardinality({RowKey(rs[j]) : j \in written}) = Cardinality(written)
       THEN \* no key is assigned twice
            {<<RowKey(rs[j]), rs[j].decision>> : j \in written}
       ELSE {<<RowKey(rs[i]), rs[i].decision>> :
                i \in {j \in written :
                        \A l \in (j + 1)..Len(rs) :
                           (rs[l].repeat_id = rs[j].repeat_id
                               /\ rs[l].difference_id = rs[j].difference_id)
                              => ~WrittenBack(rs[l])}}

\* lines 248-287: the two CSV files, each a sequence of lines: the header,
\* then one line per row written
NoFile == <<>>
LogHeader ==
    <<"repeat_id", "difference_id", "status", "match", "confidence", "reason", "evidence",
      "protocol_page", "protocol_widget", "report_page">>
ExceptionsHeader == <<"repeat_id", "difference_id", "status", "reason">>
LogLine(row) ==
    <<row.repeat_id, row.difference_id, row.decision, row.match, row.confidence, row.reason,
      row.evidence, row.protocol_ref, row.protocol_ref, row.report_ref>>
ExceptionsLine(row) == <<row.repeat_id, row.difference_id, row.decision, row.reason>>
LogTable(rs) == <<LogHeader>> \o [i \in DOMAIN rs |-> LogLine(rs[i])]
OnlyFail(rs) == SelectSeq(rs, LAMBDA row : row.decision = "FAIL")
NotPass(rs) == SelectSeq(rs, LAMBDA row : row.decision # "PASS")
ExceptionsTable(rs) ==
    LET written == NotPass(rs)
    IN <<ExceptionsHeader>> \o [i \in DOMAIN written |-> ExceptionsLine(written[i])]

-----------------------------------------------------------------------------
(* Inputs *)

\* master PDFs: whether the table header is found, the number of radio groups
\* discovered, and which widgets the groups carry
ProtocolDoc(header, n, layout) == [header |-> header, n |-> n, layout |-> layout]
ProtocolDocs ==
    {ProtocolDoc(FALSE, 76, "full"), ProtocolDoc(TRUE, 0, "full"),
     ProtocolDoc(TRUE, 20, "mixed"), ProtocolDoc(TRUE, 76, "mixed"),
     ProtocolDoc(TRUE, 77, "full")}
TestIds == {SupportedTestId, "4.1-7"}
Thresholds == {0, 90}

\* report PDFs: up to MaxBlocks blocks with these keys, in document order
ReportKeyChoices == {<<4, 18>>, <<4, 19>>, <<1, 20>>, <<5, 1>>}
RECURSIVE SeqsUpTo(_, _)
SeqsUpTo(S, n) ==
    IF n = 0 THEN {<<>>}
    ELSE SeqsUpTo(S, n - 1)
         \cup {Append(q, x) : q \in {r \in SeqsUpTo(S, n - 1) : Len(r) = n - 1}, x \in S}
ReportBlockLists == SeqsUpTo(ReportKeyChoices, MaxBlocks)

\* a VLMClient after __init__
Client(api_key, cache_enabled, max_retries, cache) ==
    [api_key |-> api_key, cache_enabled |-> cache_enabled, max_retries |-> max_retries,
     model_name |-> ModelName, cache |-> cache]

\* cache files found on disk by _load_cache: every dict value is kept as it is
GoodEntry == ModelDump(ComparisonResult(TRUE, <<"cached verdict">>, Some(97)))
BadEntry == [match |-> JStr("maybe"), reason |-> JMissing, confidence |-> JMissing]
AllA == Images(File(<<"a">>), File(<<"a">>), File(<<"a">>), File(<<"a">>))
JunkEntry == [match |-> JMissing, reason |-> JMissing, confidence |-> JMissing]
CacheFiles ==
    {NoCacheFile, GarbageCacheFile,
     CacheFile(CachePut(EmptyCache, _cache_key(ModelName, AllA), FileValue(TRUE, GoodEntry))),
     CacheFile(CachePut(EmptyCache, _cache_key(ModelName, AllA), FileValue(TRUE, BadEntry))),
     CacheFile(CachePut(EmptyCache, _cache_key(ModelName, AllA), FileValue(FALSE, JunkEntry)))}
DisabledCacheFiles ==
    {NoCacheFile,
     CacheFile(CachePut(EmptyCache, _cache_key(ModelName, AllA), FileValue(TRUE, GoodEntry)))}
LoadedCaches == {_load_cache(TRUE, file) : file \in CacheFiles}

EngineClients ==
    {Client(TRUE, TRUE, 1, EmptyCache), Client(FALSE, TRUE, 1, EmptyCache)}
StandaloneClients ==
    {Client(k, e, m, c) : k \in BOOLEAN, e \in BOOLEAN, m \in 0..MaxRetriesBound,
                          c \in LoadedCaches}

\* what a network attempt can come to
ObjBodies ==
    {Body("obj", JBool(TRUE), JStr("same artwork"), JNum(95)),
     Body("obj", JBool(FALSE), JMissing, JNum(150)),
     Body("obj", JStr(" Yes "), JStr("  "), JMissing),
     Body("obj", JNum(1), JStr("same artwork"), JStr("0.5")),
     Body("obj", JMissing, JStr("same artwork"), JNum(95)),
     Body("obj", JStr("maybe"), JStr("same artwork"), JNum(95)),
     Body("obj", JBool(TRUE), JStr("same artwork"), JStr("high")),
     Body("obj", JBool(TRUE), JStr("same artwork"), JList)}
OtherBodies ==
    {Body(k, JMissing, JMissing, JMissing) :
        k \in {"badjson", "notobject", "empty", "text_malformed", "text_nonobject"}}
TransportErrors == {HttpError(429), HttpError(500), URLError, Timeout}
Outcomes == TransportErrors \cup {Response(b) : b \in ObjBodies \cup OtherBodies}

EngineOutcomes ==
    {HttpError(429), URLError,
     Response(Body("obj", JBool(TRUE), JStr("same artwork"), JNum(95))),
     Response(Body("obj", JBool(FALSE), JMissing, JNum(150))),
     Response(Body("obj", JBool(TRUE), JStr("same artwork"), JStr("0.5"))),
     Response(Body("obj", JStr(" Yes "), JStr("  "), JMissing)),
     Response(Body("text_malformed", JMissing, JMissing, JMissing)),
     Response(Body("obj", JBool(TRUE), JStr("same artwork"), JList))}

\* the arguments of a stand-alone compare call
ImageChoices ==
    {AllA,
     Images(File(<<"a">>), File(<<"b">>), File(<<"a">>), File(<<"a">>)),
     Images(File(<<"a">>), Unreadable, File(<<"a">>), File(<<"a">>)),
     Images(NoImage, File(<<"a">>), File(<<"a">>), NoImage),
     Images(File(<<"a">>), NoImage, File(<<"a">>), File(<<"a">>))}

-----------------------------------------------------------------------------
(* run_reconciliation *)

Init ==
    /\ pc = "start"
    /\ test_id \in TestIds
    /\ protocol_doc \in ProtocolDocs
    /\ report_blocks \in ReportBlockLists
    /\ threshold \in Thresholds
    /\ repeat_id = 1
    /\ difference_id = 1
    /\ rows = <<>>
    /\ decisions = {}
    /\ fields = NoDocument
    /\ progress_callback \in BOOLEAN
    /\ progress_callback \/ Len(report_blocks) <= 1
    /\ opened = FALSE
    /\ error = ""
    /\ run = 1
    /\ rows1 = <<>>
    /\ net = {}
    /\ min_seconds_between_calls = DefaultMinSeconds
    /\ now = 0
    /\ last_request_at = 0
    /\ issued = <<>>
    /\ report_pages = <<>>
    /\ progress = <<>>
    /\ out_csv = NoFile
    /\ out_exceptions = NoFile
    /\ cache_file = NoCacheFile
    /\ vlm \in EngineClients
    /\ call = IdleCall
    /\ prev = IdleCall
    /\ ncalls = 0

key == <<repeat_id, difference_id>>

\* lines 24-38: extraction either raises to the caller or the loops start
Extract ==
    /\ pc = "start"
    /\ pc' = IF ExtractError(protocol_doc, test_id) = "" THEN "loop" ELSE "raised"
    /\ opened' = (test_id = SupportedTestId)
    /\ error' = ExtractError(protocol_doc, test_id)
    /\ UNCHANGED <<test_id, protocol_doc, report_blocks, threshold, repeat_id,
                   difference_id, rows, decisions, fields, vlm, call, prev, ncalls,
                   progress_callback, progress, out_csv, out_exceptions,
                   cache_file, net, rerunVars, timeVars, report_pages>>

\* progress_callback(len(rows), len(expected_keys), message), after the append
ProgressCallBeforeAppend(rs, row) == <<Len(rs) - 1, Cardinality(ExpectedKeys), row.decision>>
ProgressCall(rs, row) == <<Len(rs), Cardinality(ExpectedKeys), row.decision>>

\* the two for loops: the next key, or the extras when the universe is done
AppendAndAdvance(row) ==
    /\ rows' = Append(rows, row)
    /\ progress' = IF progress_callback
                   THEN Append(progress, ProgressCall(rows', row))
                   ELSE progress
    /\ IF difference_id < NumDifferences
       THEN /\ difference_id' = difference_id + 1
            /\ repeat_id' = repeat_id
            /\ pc' = "loop"
       ELSE IF repeat_id < NumRepeats
       THEN /\ difference_id' = 1
            /\ repeat_id' = repeat_id + 1
            /\ pc' = "loop"
       ELSE /\ UNCHANGED <<repeat_id, difference_id>>
            /\ pc' = "extras"

\* lines 46-76
AutoPassRow ==
    /\ pc = "loop"
    /\ ~HasReportBlock(report_blocks, key)
    /\ RepeatCount(report_blocks, repeat_id) = 0
    /\ AppendAndAdvance(AutoPassRowFor(protocol_doc, key))
    /\ UNCHANGED <<test_id, protocol_doc, report_blocks, threshold, decisions, fields,
                   vlm, call, prev, ncalls, progress_callback, opened, error, out_csv,
                   out_exceptions,
                   cache_file, net, rerunVars, timeVars, report_pages>>

\* lines 77-108
MissingDifferenceRow ==
    /\ pc = "loop"
    /\ ~HasReportBlock(report_blocks, key)
    /\ RepeatCount(report_blocks, repeat_id) # 0
    /\ AppendAndAdvance(MissingDifferenceRowFor(protocol_doc, key))
    /\ UNCHANGED <<test_id, protocol_doc, report_blocks, threshold, decisions, fields,
                   vlm, call, prev, ncalls, progress_callback, opened, error, out_csv,
                   out_exceptions,
                   cache_file, net, rerunVars, timeVars, report_pages>>

\* lines 158-211 once compare is over: the row when it returned, the exception
\* passed on to the caller when it raised
AfterCompare(after) ==
    IF after.status = "returned"
    THEN /\ AppendAndAdvance(
               ComparedRowFor(protocol_doc, report_blocks, key, after.result, threshold))
         /\ error' = error
    ELSE /\ pc' = IF after.status = "raised" THEN "raised" ELSE "compare"
         /\ error' = IF after.status = "raised" THEN after.exc ELSE error
         /\ UNCHANGED <<repeat_id, difference_id, rows, progress>>

\* lines 110-157: render the crops and call compare, up to its first network attempt
CompareRow ==
    /\ pc = "loop"
    /\ HasReportBlock(report_blocks, key)
    /\ call' = CompareEnter(vlm, RenderedCrops(protocol_doc, key))
    /\ prev' = call
    /\ ncalls' = ncalls + 1
    /\ AfterCompare(call')
    /\ UNCHANGED <<test_id, protocol_doc, report_blocks, threshold, decisions, fields, vlm,
                   progress_callback, opened, out_csv, out_exceptions,
                   cache_file, net, rerunVars, timeVars, report_pages>>

\* a network attempt of a run, and whether it gave the call its result
NetworkAttempt(r, k, after) ==
    <<r, k, IF after.status = "returned" /\ after.source = "network"
            THEN "answered" ELSE "failed">>

\* one network attempt of the compare call in progress
CompareRowAttempt ==
    /\ pc = "compare"
    /\ call.status = "running"
    /\ \E outcome \in EngineOutcomes :
          /\ call' = CompareAttempt(vlm, call, outcome)
          /\ vlm' = [vlm EXCEPT !.cache = CacheAfter(vlm, call, call')]
          /\ cache_file' = CacheFileAfter(vlm, call, call', cache_file)
    /\ net' = net \cup {NetworkAttempt(run, key, call')}
    /\ AfterCompare(call')
    /\ UNCHANGED <<test_id, protocol_doc, report_blocks, threshold, decisions, fields,
                   prev, ncalls, progress_callback, opened, out_csv, out_exceptions,
                   rerunVars, timeVars, report_pages>>

\* lines 213-230
AppendExtras ==
    /\ pc = "extras"
    /\ rows' = rows \o ExtraRows(report_blocks)
    /\ pc' = "writeback"
    /\ UNCHANGED <<test_id, protocol_doc, report_blocks, threshold, repeat_id,
                   difference_id, decisions, fields, vlm, call, prev, ncalls,
                   progress_callback, opened, error, progress, out_csv, out_exceptions,
                   cache_file, net, rerunVars, timeVars, report_pages>>

\* lines 232-287
WriteBack ==
    /\ pc = "writeback"
    /\ decisions' = WriteBackDecisions(rows)
    /\ fields' = apply_pass_fail_value(protocol_doc, decisions')
    /\ out_csv' = LogTable(rows)
    /\ out_exceptions' = ExceptionsTable(rows)
    /\ pc' = "done"
    /\ UNCHANGED <<test_id, protocol_doc, report_blocks, threshold, repeat_id,
                   difference_id, rows, vlm, call, prev, ncalls, progress_callback, opened,
                   error, progress,
                   cache_file, net, rerunVars, timeVars, report_pages>>

Next ==
    \/ Extract
    \/ AutoPassRow
    \/ MissingDifferenceRow
    \/ CompareRow
    \/ CompareRowAttempt
    \/ AppendExtras
    \/ WriteBack

Spec == Init /\ [][Next]_vars

-----------------------------------------------------------------------------
(* run_reconciliation called a second time over the same documents, with the *)
(* cache file the first run left                                             *)

InitRerun ==
    /\ Init
    /\ test_id = SupportedTestId
    /\ protocol_doc = ProtocolDoc(TRUE, 76, "mixed")
    /\ progress_callback
    /\ report_blocks # <<>>
    /\ \A i \in DOMAIN report_blocks : report_blocks[i] \in ExpectedKeys
    /\ \A i, j \in DOMAIN report_blocks : report_blocks[i] = report_blocks[j] => i = j

\* the first run is over (returned or raised): a new process, a new VLMClient()
Rerun ==
    /\ run = 1
    /\ pc \in {"done", "raised"}
    /\ run' = 2
    /\ rows1' = rows
    /\ pc' = "start"
    /\ repeat_id' = 1
    /\ difference_id' = 1
    /\ rows' = <<>>
    /\ decisions' = {}
    /\ progress' = <<>>
    /\ opened' = FALSE
    /\ error' = ""
    /\ vlm' = Client(vlm.api_key, vlm.cache_enabled, vlm.max_retries,
                     _load_cache(vlm.cache_enabled, cache_file))
    /\ call' = IdleCall
    /\ prev' = IdleCall
    /\ ncalls' = 0
    /\ UNCHANGED <<test_id, protocol_doc, report_blocks, threshold, fields, progress_callback,
                   out_csv, out_exceptions, cache_file, net, timeVars, report_pages>>

NextRerun == Next \/ Rerun

SpecRerun == InitRerun /\ [][NextRerun]_vars

-----------------------------------------------------------------------------
(* A VLMClient on its own: compare called with any arguments *)

InitClient ==
    /\ pc = "client"
    /\ test_id = SupportedTestId
    /\ protocol_doc = ProtocolDoc(TRUE, 0, "full")
    /\ report_blocks = <<>>
    /\ threshold = 0
    /\ repeat_id = 1
    /\ difference_id = 1
    /\ rows = <<>>
    /\ decisions = {}
    /\ fields = NoDocument
    /\ progress_callback = FALSE
    /\ opened = FALSE
    /\ error = ""
    /\ run = 1
    /\ rows1 = <<>>
    /\ net = {}
    /\ min_seconds_between_calls = DefaultMinSeconds
    /\ now = 0
    /\ last_request_at = 0
    /\ issued = <<>>
    /\ report_pages = <<>>
    /\ progress = <<>>
    /\ out_csv = NoFile
    /\ out_exceptions = NoFile
    /\ cache_file \in CacheFiles
    /\ vlm \in {c \in StandaloneClients : c.cache = _load_cache(c.cache_enabled, cache_file)}
    /\ vlm.cache_enabled \/ cache_file \in DisabledCacheFiles
    /\ call = IdleCall
    /\ prev = IdleCall
    /\ ncalls = 0

\* compare(...), up to its first network attempt
Compare ==
    /\ pc = "client"
    /\ call.status # "running"
    /\ ncalls < MaxCalls
    /\ \E imgs \in ImageChoices : call' = CompareEnter(vlm, imgs)
    /\ prev' = call
    /\ ncalls' = ncalls + 1
    /\ UNCHANGED <<engineVars, vlm,
                   cache_file, net, rerunVars, timeVars, report_pages>>

\* one network attempt of the compare call in progress
Attempt ==
    /\ pc = "client"
    /\ call.status = "running"
    /\ \E outcome \in Outcomes :
          /\ call' = CompareAttempt(vlm, call, outcome)
          /\ vlm' = [vlm EXCEPT !.cache = CacheAfter(vlm, call, call')]
          /\ cache_file' = CacheFileAfter(vlm, call, call', cache_file)
    /\ UNCHANGED <<engineVars, prev, ncalls,
                   net, rerunVars, timeVars, report_pages>>

NextClient == Compare \/ Attempt

SpecClient == InitClient /\ [][NextClient]_vars

-----------------------------------------------------------------------------
(* A VLMClient whose process can die at any point and be started again *)

\* where the process dies:
\*   "elsewhere"  at a point where line 326 has not run and no file is being written
\*   "stored"     between line 326 and the write_text of _save_cache
\*   "writing"    inside write_text, the file opened and the text not complete
\*   "saved"      after _save_cache, before compare returns
CrashPoints == {"elsewhere", "stored", "writing", "saved"}

\* the clients on which a crash is tried: with a credential, without retries
InitCrash ==
    /\ InitClient
    /\ vlm.api_key
    /\ vlm.max_retries = 0

AtCrash(point, after) ==
    /\ vlm' = [vlm EXCEPT !.cache = IF point = "elsewhere" THEN @
                                    ELSE CacheAfter(vlm, call, after)]
    /\ cache_file' =
          CASE point = "writing" ->
                  _save_cache_interrupted(CacheAfter(vlm, call, after), cache_file)
            [] point = "saved" -> CacheFileAfter(vlm, call, after, cache_file)
            [] OTHER -> cache_file

Crash ==
    /\ pc = "client"
    /\ \/ AtCrash("elsewhere", call)
       \/ /\ call.status = "running"
          /\ vlm.cache_enabled
          /\ \E point \in CrashPoints \ {"elsewhere"}, outcome \in Outcomes :
                /\ CompareAttempt(vlm, call, outcome).status = "returned"
                /\ CompareAttempt(vlm, call, outcome).source = "network"
                /\ AtCrash(point, CompareAttempt(vlm, call, outcome))
    /\ pc' = "crashed"
    /\ UNCHANGED <<test_id, protocol_doc, report_blocks, threshold, repeat_id,
                   difference_id, rows, decisions, fields, progress_callback, opened,
                   error, progress, out_csv, out_exceptions, call, prev, ncalls,
                   net, rerunVars, timeVars, report_pages>>

\* a new process: VLMClient() with the same environment, lines 145-167
Restart ==
    /\ pc = "crashed"
    /\ pc' = "client"
    /\ vlm' = Client(vlm.api_key, vlm.cache_enabled, vlm.max_retries,
                     _load_cache(vlm.cache_enabled, cache_file))
    /\ call' = IdleCall
    /\ prev' = IdleCall
    /\ UNCHANGED <<test_id, protocol_doc, report_blocks, threshold, repeat_id,
                   difference_id, rows, decisions, fields, progress_callback, opened,
                   error, progress, out_csv, out_exceptions, ncalls, cache_file,
                   net, rerunVars, timeVars, report_pages>>

NextCrash == Compare \/ Attempt \/ Crash \/ Restart

SpecCrash == InitCrash /\ [][NextCrash]_vars

-----------------------------------------------------------------------------
(* The requests of one VLMClient in time: _throttle before each urlopen,   *)
(* _last_request_at after each response, time.sleep between retries        *)

\* time.time() when the client is constructed: later than any spacing after 0.0
StartTime == 4 * TicksPerSecond
MinSecondsChoices == {0, DefaultMinSeconds, 3 * TicksPerSecond}
\* how long the caller waits before a compare call, and how long a response takes
IdleTicks == {0, 1}
ResponseTicks == {0, 1}
ThrottleClients ==
    {Client(TRUE, e, m, EmptyCache) : e \in BOOLEAN, m \in 0..1}
ThrottleImages == {AllA}
ThrottleOutcomes ==
    {HttpError(429), HttpError(500),
     Response(Body("obj", JBool(TRUE), JStr("same artwork"), JNum(95))),
     Response(Body("badjson", JMissing, JMissing, JMissing))}

Request(at, stamped) == [at |-> at, stamped |-> stamped]

InitThrottle ==
    /\ pc = "throttle"
    /\ test_id = SupportedTestId
    /\ protocol_doc = ProtocolDoc(TRUE, 0, "full")
    /\ report_blocks = <<>>
    /\ threshold = 0
    /\ repeat_id = 1
    /\ difference_id = 1
    /\ rows = <<>>
    /\ decisions = {}
    /\ fields = NoDocument
    /\ progress_callback = FALSE
    /\ opened = FALSE
    /\ error = ""
    /\ run = 1
    /\ rows1 = <<>>
    /\ net = {}
    /\ min_seconds_between_calls \in MinSecondsChoices
    /\ now = StartTime
    /\ last_request_at = 0
    /\ issued = <<>>
    /\ report_pages = <<>>
    /\ progress = <<>>
    /\ out_csv = NoFile
    /\ out_exceptions = NoFile
    /\ cache_file = NoCacheFile
    /\ vlm \in ThrottleClients
    /\ call = IdleCall
    /\ prev = IdleCall
    /\ ncalls = 0

\* compare(...) called some time after the previous call returned: lines 220-241
ThrottleCompare ==
    /\ pc = "throttle"
    /\ call.status # "running"
    /\ ncalls < MaxCalls
    /\ \E imgs \in ThrottleImages, idle \in IdleTicks :
          /\ call' = CompareEnter(vlm, imgs)
          /\ now' = now + idle
    /\ prev' = call
    /\ ncalls' = ncalls + 1
    /\ UNCHANGED <<engineVars, vlm, cache_file, net, rerunVars,
                   min_seconds_between_calls, last_request_at, issued, report_pages>>

\* lines 304-348: _throttle, the request, its outcome, and the back-off sleep
\* when the loop continues
ThrottleAttempt ==
    /\ pc = "throttle"
    /\ call.status = "running"
    /\ \E outcome \in ThrottleOutcomes, took \in ResponseTicks :
          LET at == _throttle(min_seconds_between_calls, last_request_at, now)
              after == CompareAttempt(vlm, call, outcome)
          IN /\ call' = after
             /\ issued' = Append(issued, Request(at, StampsLastRequest(outcome)))
             /\ last_request_at' =
                   IF StampsLastRequest(outcome) THEN at + took ELSE last_request_at
             /\ now' = IF after.status = "running"
                       THEN at + took + BackoffSeconds(call.attempt) * TicksPerSecond
                       ELSE at + took
             /\ vlm' = [vlm EXCEPT !.cache = CacheAfter(vlm, call, after)]
             /\ cache_file' = CacheFileAfter(vlm, call, after, cache_file)
    /\ UNCHANGED <<engineVars, prev, ncalls, net, rerunVars,
                   min_seconds_between_calls, report_pages>>

NextThrottle == ThrottleCompare \/ ThrottleAttempt

SpecThrottle == InitThrottle /\ [][NextThrottle]_vars

-----------------------------------------------------------------------------
(* extract_report_blocks applied to any report of a few pages *)

MarkerNumbers == {0, 1, 2}
LabelNumbers == {7}
PageItems == {Marker(n) : n \in MarkerNumbers} \cup {Label(d) : d \in LabelNumbers}
\* reports of one page and of two pages
ReportPages ==
    LET Pages == SeqsUpTo(PageItems, MaxItems)
    IN {<<p>> : p \in Pages} \cup {<<p, q>> : p \in Pages, q \in Pages}

InitReport ==
    /\ pc = "report"
    /\ test_id = SupportedTestId
    /\ protocol_doc = ProtocolDoc(TRUE, 0, "full")
    /\ report_blocks = <<>>
    /\ threshold = 0
    /\ repeat_id = 1
    /\ difference_id = 1
    /\ rows = <<>>
    /\ decisions = {}
    /\ fields = NoDocument
    /\ progress_callback = FALSE
    /\ opened = FALSE
    /\ error = ""
    /\ run = 1
    /\ rows1 = <<>>
    /\ net = {}
    /\ min_seconds_between_calls = DefaultMinSeconds
    /\ now = 0
    /\ last_request_at = 0
    /\ issued = <<>>
    /\ report_pages \in ReportPages
    /\ progress = <<>>
    /\ out_csv = NoFile
    /\ out_exceptions = NoFile
    /\ cache_file = NoCacheFile
    /\ vlm = Client(FALSE, FALSE, 0, EmptyCache)
    /\ call = IdleCall
    /\ prev = IdleCall
    /\ ncalls = 0

\* report_blocks = extract_report_blocks(report_pdf), reconciliation.py line 25
ExtractReport ==
    /\ pc = "report"
    /\ report_blocks' = extract_report_blocks(report_pages)
    /\ pc' = "extracted"
    /\ UNCHANGED <<test_id, protocol_doc, threshold, repeat_id, difference_id, rows,
                   decisions, fields, progress_callback, opened, error, progress,
                   out_csv, out_exceptions, vlm, call, prev, ncalls, cache_file, net,
                   rerunVars, timeVars, report_pages>>

NextReport == ExtractReport

SpecReport == InitReport /\ [][NextReport]_vars

-----------------------------------------------------------------------------
(* Properties of run_reconciliation *)

RowsOfKey(k) ==
    {i \in DOMAIN rows : rows[i].repeat_id = k[1] /\ rows[i].difference_id = k[2]}
Compared(row) == row.evidence[1] = "vlm_compare"
ReportHasRepeat(r) == \E i \in DOMAIN report_blocks : report_blocks[i][1] = r
ReportHasKey(k) == \E i \in DOMAIN report_blocks : report_blocks[i] = k
\* the master's groups are numbered 1..n, 19 to a repeat
MasterHasKey(k) ==
    /\ k[1] >= 1
    /\ k[2] \in 1..RowsPerRepeat
    /\ (k[1] - 1) * RowsPerRepeat + k[2] <= protocol_doc.n

\* C1: when run_reconciliation completes, the rows hold exactly one row for
\* every key of the 4 x 19 universe, every other row is for a report key outside
\* the universe, and no key has two rows.
C1_OneRowPerKey ==
    pc = "done" =>
        /\ ExpectedKeys \subseteq {RowKey(rows[i]) : i \in DOMAIN rows}
        /\ \A i \in DOMAIN rows :
              RowKey(rows[i]) \notin ExpectedKeys => ReportHasKey(RowKey(rows[i]))
        /\ Cardinality({RowKey(rows[i]) : i \in DOMAIN rows}) = Len(rows)
C1_Witness ==
    /\ pc = "done"
    /\ Len(rows) > NumRepeats * NumDifferences
    /\ \E i \in DOMAIN rows : Compared(rows[i])

ResultChoices ==
    {ComparisonResult(m, <<"r">>, c) : m \in BOOLEAN, c \in {None, Some(0), Some(90), Some(100)}}
C3_MissingMasterUnset ==
    /\ \A i \in DOMAIN rows :
          (RowKey(rows[i]) \in ExpectedKeys /\ ReportHasKey(RowKey(rows[i]))
                /\ ~MasterHasKey(RowKey(rows[i]))) =>
             /\ rows[i].decision = "UNSET"
             /\ \A d \in decisions : d[1] # RowKey(rows[i])
             /\ \A n \in DOMAIN fields :
                   fields[n] # InputWidgets(protocol_doc, n) => KeyOf(n) # RowKey(rows[i])
    /\ \A comparison \in ResultChoices, thr \in Thresholds :
          Decide(FALSE, comparison, thr) = "UNSET"
C3_Witness ==
    /\ pc = "done"
    /\ threshold = 0
    /\ \E i \in DOMAIN rows :
          /\ RowKey(rows[i]) \in ExpectedKeys
          /\ Compared(rows[i])
          /\ ~MasterHasKey(RowKey(rows[i]))
    /\ decisions # {}

\* C4: when the report has no record of repeat r, every row of repeat r is PASS
\* with match true and confidence 1.0, with or without a master record, all 19
\* of them are there when the run completes, and compare is called for none.
OracleCallsAccounted ==
    ncalls = Cardinality({i \in DOMAIN rows : Compared(rows[i])})
             + (IF call.status \in {"running", "raised"} THEN 1 ELSE 0)
C4_ZeroDifferencesAutoPass ==
    /\ \A i \in DOMAIN rows :
          (rows[i].repeat_id \in EXPECTED_REPEATS /\ ~ReportHasRepeat(rows[i].repeat_id)) =>
             /\ rows[i].decision = "PASS"
             /\ rows[i].match
             /\ rows[i].confidence = Some(100)
             /\ ~Compared(rows[i])
    /\ OracleCallsAccounted
    /\ pc = "done" =>
          \A r \in EXPECTED_REPEATS :
             ~ReportHasRepeat(r) =>
                Cardinality({i \in DOMAIN rows : rows[i].repeat_id = r}) = NumDifferences
C4_Witness ==
    /\ pc = "done"
    /\ ReportHasRepeat(1)
    /\ ~ReportHasRepeat(2)
    /\ ncalls > 0
    /\ \E i \in DOMAIN rows :
          /\ rows[i].repeat_id = 2 /\ rows[i].decision = "PASS"
          /\ ~MasterHasKey(RowKey(rows[i]))
    /\ \E i \in DOMAIN rows :
          /\ rows[i].repeat_id = 2 /\ rows[i].decision = "PASS"
          /\ MasterHasKey(RowKey(rows[i]))

\* C5: when the report has records of repeat r but none for the key (r, d) of
\* the universe, the row of (r, d) is FAIL with match false and confidence 1.0,
\* made without a compare call, and its evidence carries the missing-widget
\* flag exactly when the master has no record for (r, d).
C5_MissingDifferenceFail ==
    /\ \A i \in DOMAIN rows :
          (RowKey(rows[i]) \in ExpectedKeys /\ ReportHasRepeat(rows[i].repeat_id)
                /\ ~ReportHasKey(RowKey(rows[i]))) =>
             /\ rows[i].decision = "FAIL"
             /\ ~rows[i].match
             /\ rows[i].confidence = Some(100)
             /\ ~Compared(rows[i])
             /\ ("missing_protocol_widget" \in {rows[i].evidence[j] : j \in DOMAIN rows[i].evidence})
                   <=> ~MasterHasKey(RowKey(rows[i]))
    /\ OracleCallsAccounted
C5_Witness ==
    /\ \E i \in DOMAIN rows :
          /\ ReportHasRepeat(rows[i].repeat_id) /\ ~ReportHasKey(RowKey(rows[i]))
          /\ RowKey(rows[i]) \in ExpectedKeys /\ MasterHasKey(RowKey(rows[i]))
    /\ \E i \in DOMAIN rows :
          /\ ReportHasRepeat(rows[i].repeat_id) /\ ~ReportHasKey(RowKey(rows[i]))
          /\ RowKey(rows[i]) \in ExpectedKeys /\ ~MasterHasKey(RowKey(rows[i]))
    /\ ncalls > 0

\* C8: in protocol_reconciled.pdf a widget differs from the input document
\* only when the row of its key is PASS or FAIL, its new value is that decision
\* and its states offer it; the fields of a key whose rows are all N/A or UNSET
\* are as in the input, and nothing is written before the run completes.
RowDecisions == {<<RowKey(rows[i]), rows[i].decision>> : i \in DOMAIN rows}
DecisionsOfField(n) == {rows[i].decision : i \in RowsOfKey(KeyOf(n))}
C8_WriteBackFrame ==
    /\ pc # "done" => fields = NoDocument
    /\ pc = "done" =>
          LET rd == RowDecisions
          IN /\ DOMAIN fields = 1..protocol_doc.n
             /\ \A n \in DOMAIN fields :
                   LET ds == {d \in DecisionValues : <<KeyOf(n), d>> \in rd}
                       old == InputWidgets(protocol_doc, n)
                   IN /\ DOMAIN fields[n] = DOMAIN old
                      /\ \A w \in DOMAIN fields[n] :
                            /\ fields[n][w].states = old[w].states
                            /\ fields[n][w] # old[w] =>
                                  /\ fields[n][w].field_value \in {"PASS", "FAIL"}
                                  /\ fields[n][w].field_value \in ds
                                  /\ fields[n][w].field_value \in fields[n][w].states
                      /\ ds \subseteq {"N#2FA", "UNSET"} => fields[n] = old
C8_Witness ==
    /\ pc = "done"
    /\ \E n \in DOMAIN fields :
          /\ DecisionsOfField(n) = {"PASS"}
          /\ fields[n][1].field_value = "PASS"
          /\ fields[n][2].field_value = "FAIL"
    /\ \E n \in DOMAIN fields :
          /\ DecisionsOfField(n) = {"PASS"}
          /\ fields[n] = InputWidgets(protocol_doc, n)
    /\ \E n \in DOMAIN fields :
          /\ DecisionsOfField(n) = {"FAIL"}
          /\ fields[n] # InputWidgets(protocol_doc, n)
    /\ \E n \in DOMAIN fields :
          /\ DecisionsOfField(n) = {"UNSET"}
          /\ \E i \in RowsOfKey(KeyOf(n)) : Compared(rows[i]) /\ rows[i].match

\* C12: the returned rows are the 76 rows of the universe in repeat-major,
\* difference-minor order, followed by one UNSET row with match false for
\* every report key outside the universe in ascending key order, and no
\* compare call is made for a key outside the universe.
UniverseSize == NumRepeats * NumDifferences
UniverseKeyAt(i) == <<((i - 1) \div NumDifferences) + 1, ((i - 1) % NumDifferences) + 1>>
KeyBefore(k1, k2) == k1[1] < k2[1] \/ (k1[1] = k2[1] /\ k1[2] < k2[2])
C12_RowOrder ==
    /\ pc \in {"loop", "compare"} =>
          /\ Len(rows) < UniverseSize
          /\ key = UniverseKeyAt(Len(rows) + 1)
    /\ pc \in {"writeback", "done"} =>
          /\ Len(rows) >= UniverseSize
          /\ \A i \in 1..UniverseSize : RowKey(rows[i]) = UniverseKeyAt(i)
          /\ \A i \in 1..(UniverseSize - 1) : KeyBefore(RowKey(rows[i]), RowKey(rows[i + 1]))
          /\ \A i \in (UniverseSize + 1)..Len(rows) :
                /\ RowKey(rows[i]) \notin ExpectedKeys
                /\ ReportHasKey(RowKey(rows[i]))
                /\ rows[i].decision = "UNSET"
                /\ ~rows[i].match
                /\ ~Compared(rows[i])
                /\ i < Len(rows) => KeyBefore(RowKey(rows[i]), RowKey(rows[i + 1]))
          /\ \A b \in DOMAIN report_blocks :
                report_blocks[b] \notin ExpectedKeys =>
                   \E i \in (UniverseSize + 1)..Len(rows) : RowKey(rows[i]) = report_blocks[b]
          /\ OracleCallsAccounted
C12_Witness ==
    /\ pc = "done"
    /\ Len(rows) = UniverseSize + 2
    /\ report_blocks[1] = <<5, 1>>
    /\ report_blocks[2] = <<1, 20>>

\* C13: exceptions.csv holds exactly the lines of reconciliation_log.csv whose
\* status is not PASS, in the same order, each with the same columns as a line
\* of reconciliation_log.csv -- as stated.
NonPassLogLines == SelectSeq(Tail(out_csv), LAMBDA line : line[3] # "PASS")
C13_ExceptionsSameShape ==
    pc = "done" =>
        /\ Len(out_csv) = Len(rows) + 1
        /\ out_exceptions[1] = out_csv[1]
        /\ Tail(out_exceptions) = NonPassLogLines

\* C13 (amended): exceptions.csv holds one line for every line of
\* reconciliation_log.csv whose status is not PASS, in the same order, each
\* restricted to the four columns repeat_id, difference_id, status, reason;
\* neither file exists before the run completes.
C13_ExceptionsFourColumns ==
    /\ pc # "done" => out_csv = NoFile /\ out_exceptions = NoFile
    /\ pc = "done" =>
          /\ Len(out_csv) = Len(rows) + 1
          /\ Len(out_csv[1]) = 10
          /\ \A i \in DOMAIN rows :
                /\ Len(out_csv[i + 1]) = Len(out_csv[1])
                /\ out_csv[i + 1][1] = rows[i].repeat_id
                /\ out_csv[i + 1][2] = rows[i].difference_id
                /\ out_csv[i + 1][3] = rows[i].decision
                /\ out_csv[i + 1][6] = rows[i].reason
          /\ out_exceptions[1] = <<out_csv[1][1], out_csv[1][2], out_csv[1][3], out_csv[1][6]>>
          /\ out_exceptions[1] = <<"repeat_id", "difference_id", "status", "reason">>
          /\ LET lines == NonPassLogLines
             IN /\ Len(out_exceptions) = Len(lines) + 1
                /\ \A i \in DOMAIN lines :
                      out_exceptions[i + 1] =
                         <<lines[i][1], lines[i][2], lines[i][3], lines[i][6]>>
C13_Witness ==
    /\ pc = "done"
    /\ \E i \in DOMAIN out_csv : i > 1 /\ out_csv[i][3] = "PASS"
    /\ \E i \in DOMAIN out_exceptions : i > 1 /\ out_exceptions[i][3] = "FAIL"
    /\ \E i \in DOMAIN out_exceptions :
          /\ i > 1
          /\ out_exceptions[i][3] = "UNSET"
          /\ <<out_exceptions[i][1], out_exceptions[i][2]>> \in ExpectedKeys
    /\ \E i \in DOMAIN out_exceptions :
          /\ i > 1
          /\ out_exceptions[i][3] = "UNSET"
          /\ <<out_exceptions[i][1], out_exceptions[i][2]>> \notin ExpectedKeys

\* C14: when the master extraction fails (unsupported test id, table header
\* not found, no radio group discovered) run_reconciliation raises before any
\* crop is rendered, any compare call, and any output file; an unsupported
\* test id is rejected before the master PDF is opened.
StructuralFailure ==
    \/ test_id # "4.1-6"
    \/ ~protocol_doc.header
    \/ protocol_doc.n = 0
NothingProduced ==
    /\ rows = <<>>
    /\ ncalls = 0
    /\ call.status = "idle"
    /\ progress = <<>>
    /\ decisions = {}
    /\ fields = NoDocument
    /\ out_csv = NoFile
    /\ out_exceptions = NoFile
C14_StructuralFailureAborts ==
    /\ StructuralFailure => pc \in {"start", "raised"} /\ NothingProduced
    /\ (StructuralFailure /\ pc = "raised") =>
          /\ error \in {"ValueError", "RuntimeError: header", "RuntimeError: no rows"}
          /\ error = "ValueError" <=> test_id # "4.1-6"
          /\ opened <=> test_id = "4.1-6"
    /\ pc = "start" => ~opened /\ error = ""
    /\ (~StructuralFailure /\ pc # "start") => opened
C14_Witness ==
    /\ pc = "raised"
    /\ test_id # "4.1-6"
    /\ ~protocol_doc.header
    /\ Len(report_blocks) > 0
    /\ ~opened
    /\ error = "ValueError"

\* C15: a supplied progress callback is invoked exactly once after every row
\* added to the result, universe rows and extra-key rows alike, the i-th
\* invocation reporting i rows completed and the total, so that the number of
\* invocations is the number of rows and the completed count never exceeds
\* the total -- as stated.
C15_ProgressEveryRow ==
    progress_callback =>
        /\ Len(progress) = Len(rows)
        /\ \A i \in DOMAIN progress : progress[i][1] = i /\ progress[i][1] <= progress[i][2]

\* C15 (amended): a supplied progress callback is invoked exactly once after
\* every row of the 76-key universe and not for the extra-key rows; the i-th
\* invocation reports i rows completed of 76, so a completed run has made 76
\* invocations, which is the length of the row list only when the report has
\* no key outside the universe.
C15_ProgressUniverseRows ==
    /\ ~progress_callback => progress = <<>>
    /\ progress_callback =>
          /\ Len(progress) = Min(Len(rows), 76)
          /\ Len(progress) > 0 =>
                progress[Len(progress)] = <<Len(progress), 76, rows[Len(progress)].decision>>
          /\ pc = "done" =>
                /\ Len(progress) = 76
                /\ \A i \in DOMAIN progress : progress[i] = <<i, 76, rows[i].decision>>
C15_Witness ==
    /\ pc = "done"
    /\ progress_callback
    /\ Len(progress) = 76
    /\ Len(rows) > 76
    /\ \E i \in DOMAIN progress : Compared(rows[i])

\* C16: when the compare call for a key with a report record ends in a
\* failure (missing crops, absent credential, exhausted retries, a payload
\* that cannot be parsed) the row is UNSET or FAIL, never PASS, its reason is
\* the failure's reason when the master has a record, and the run is not
\* aborted: it goes on to the 76 rows and both tables.
FailureRow(row) == Compared(row) /\ ~row.match /\ row.confidence = Some(0)
FailureReasonHeads ==
    {"Missing report crops for this repeat/difference.",
     "Missing protocol crops for this repeat/difference.",
     "Gemini API key not configured (set GEMINI_API_KEY).",
     "Gemini returned no text payload for comparison.",
     "Gemini response parsing failed", "Gemini API request failed"}
UnparsablePayload == call.outcome.t = "body" /\ BodyException(call.outcome.body) # ""
C16_FailureDegradesRow ==
    /\ \A i \in DOMAIN rows :
          FailureRow(rows[i]) =>
             /\ rows[i].decision \in {"UNSET", "FAIL"}
             /\ MasterHasKey(RowKey(rows[i])) => rows[i].reason[1] \in FailureReasonHeads
    /\ ((\E i \in DOMAIN rows : FailureRow(rows[i])) \/ UnparsablePayload) => pc # "raised"
    /\ pc = "done" =>
          /\ Len(rows) >= NumRepeats * NumDifferences
          /\ out_csv # NoFile
          /\ out_exceptions # NoFile

\* C17: a second run over the same documents, threshold, model and
\* credential, sharing the cache file, gives every key the decision of the
\* first run whatever the remote judge answers in either run, and makes no
\* network attempt for a comparison the first run attempted -- as stated.
AttemptedIn(r, k) == <<r, k, "answered">> \in net \/ <<r, k, "failed">> \in net
AnsweredIn(r, k) == <<r, k, "answered">> \in net
C17_SameDecisions ==
    run = 2 =>
        \A i \in DOMAIN rows :
            i <= Len(rows1) =>
                /\ rows[i].decision = rows1[i].decision
                /\ AttemptedIn(1, RowKey(rows[i])) => ~AttemptedIn(2, RowKey(rows[i]))

\* C17 (amended): with caching enabled, a second run sharing the cache file
\* gives the row of the first run to every key whose comparison the first run
\* did not send to the remote judge or got answered by it, and makes no network
\* attempt for a comparison the first run got answered; a comparison that
\* failed in the first run is sent again and may be decided differently.
C17_SameDecisionsWhenAnswered ==
    (run = 2 /\ vlm.cache_enabled) =>
        /\ \A i \in DOMAIN rows :
              i <= Len(rows1) =>
                 /\ RowKey(rows[i]) = RowKey(rows1[i])
                 /\ (AnsweredIn(1, RowKey(rows[i])) \/ ~AttemptedIn(1, RowKey(rows[i]))) =>
                       rows[i] = rows1[i]
                 /\ AnsweredIn(1, RowKey(rows[i])) => ~AttemptedIn(2, RowKey(rows[i]))
        /\ pc = "compare" => ~AnsweredIn(1, key)
C17_Witness ==
    /\ run = 2
    /\ pc = "done"
    /\ Len(rows1) = Len(rows)
    /\ \E i \in DOMAIN rows :
          /\ AnsweredIn(1, RowKey(rows[i]))
          /\ rows[i].decision = "PASS"
          /\ rows[i] = rows1[i]
    /\ \E i \in DOMAIN rows :
          /\ AttemptedIn(1, RowKey(rows[i]))
          /\ ~AnsweredIn(1, RowKey(rows[i]))
          /\ AnsweredIn(2, RowKey(rows[i]))
          /\ rows[i].decision = "PASS"
          /\ rows1[i].decision = "UNSET"

-----------------------------------------------------------------------------
(* Properties of extract_report_blocks *)

\* the items of the report in document order
RECURSIVE Flatten(_)
Flatten(pages) == IF pages = <<>> THEN <<>> ELSE Head(pages) \o Flatten(Tail(pages))
DocumentItems == Flatten(report_pages)
\* the place in the document of its k-th label
LabelPlace(k) ==
    CHOOSE i \in DOMAIN DocumentItems :
        /\ IsLabel(DocumentItems[i])
        /\ Cardinality({j \in 1..i : IsLabel(DocumentItems[j])}) = k
MarkersBefore(i) == {j \in 1..(i - 1) : IsMarker(DocumentItems[j])}
NearestMarkerBefore(i) ==
    DocumentItems[CHOOSE j \in MarkersBefore(i) : \A m \in MarkersBefore(i) : m <= j].n

\* the blocks are the labels of the document, in document order
BlocksFollowLabels ==
    pc = "extracted" =>
        /\ Len(report_blocks) = Len(SelectSeq(DocumentItems, IsLabel))
        /\ \A k \in DOMAIN report_blocks :
              report_blocks[k][2] = DocumentItems[LabelPlace(k)].n

\* C20: the repeat_id of every report block is the number of the nearest
\* section marker before its difference label in document order, within the
\* page as well as across pages, also for a label above a marker, a page with
\* several markers and a marker numbered 0.
C20_NearestPrecedingMarker ==
    pc = "extracted" =>
        \A k \in DOMAIN report_blocks :
            MarkersBefore(LabelPlace(k)) # {} =>
                report_blocks[k][1] = NearestMarkerBefore(LabelPlace(k))

\* what the code does hold to: a block takes the first marker of its own page,
\* or else of the nearest earlier page that has one, with 0 and none read as 1
PageOfLabel(k) ==
    CHOOSE p \in DOMAIN report_pages :
        /\ Len(Flatten(SubSeq(report_pages, 1, p - 1))) < LabelPlace(k)
        /\ LabelPlace(k) <= Len(Flatten(SubSeq(report_pages, 1, p)))
FirstMarkerOfPage ==
    pc = "extracted" =>
        \A k \in DOMAIN report_blocks :
            LET marked == {p \in 1..PageOfLabel(k) : RepeatMatch(report_pages[p]) # None}
            IN report_blocks[k][1] =
                  IF marked = {} THEN 1
                  ELSE RepeatOrOne(RepeatMatch(
                          report_pages[CHOOSE p \in marked : \A q \in marked : q <= p]))

-----------------------------------------------------------------------------
(* Properties of the cache file *)

\* what a client reading the file would hold
OnDiskCache == _load_cache(TRUE, cache_file)
\* the entries of the dead process's _cache that the file does not give back
LostEntries == DOMAIN vlm.cache \ DOMAIN OnDiskCache

\* whenever no compare call is in progress, the on-disk cache equals _cache
OnDiskWhenIdle ==
    (pc = "client" /\ call.status # "running" /\ vlm.cache_enabled) =>
        OnDiskCache = vlm.cache

\* C19: with caching enabled every new entry is on disk before compare
\* returns, so whenever no compare call is in progress the on-disk cache
\* equals the in-memory cache, and a crash at any point loses at most the one
\* entry of the compare call in progress.
C19_CacheOnDisk ==
    /\ OnDiskWhenIdle
    /\ (pc = "crashed" /\ vlm.cache_enabled) => LostEntries \subseteq {call.cache_key}

-----------------------------------------------------------------------------
(* Properties of the requests in time *)

\* C18: any two consecutive network requests of one client, in the same
\* compare call or in successive ones, whatever the earlier one came to, lie
\* at least the configured minimum spacing apart.
C18_RequestsSpaced ==
    \A i \in DOMAIN issued :
        i > 1 => issued[i].at - issued[i - 1].at >= min_seconds_between_calls

\* the same for the requests that follow one after which _last_request_at was set
SpacedAfterStamped ==
    \A i \in DOMAIN issued :
        (i > 1 /\ issued[i - 1].stamped) =>
            issued[i].at - issued[i - 1].at >= min_seconds_between_calls

-----------------------------------------------------------------------------
(* Properties of VLMClient.compare *)

FailureSources ==
    {"missing_report", "missing_protocol", "not_configured", "no_text", "parse_failed",
     "request_failed"}
IsFailureResult(result) ==
    /\ result.match = FALSE
    /\ result.confidence = Some(0)
    /\ result.reason # <<>>

\* C6: compare never raises: every call ends by returning a result, and every
\* failure mode returns match false, confidence 0.0 and a diagnostic reason.
C6_NeverRaises ==
    /\ call.status # "raised"
    /\ (call.status = "returned" /\ call.source \in FailureSources) =>
          IsFailureResult(call.result)

\* C7: the second of two compare calls on the same client with the same
\* contents of the four images returns the result of the first, without a
\* network attempt or a throttling wait -- as stated, for any client and any
\* first result.
SecondOfTwoCalls ==
    /\ ncalls >= 2
    /\ prev.status = "returned"
    /\ call.images = prev.images
    /\ AllReadable(call.images)
ServedWithoutNetwork ==
    /\ call.status = "returned"
    /\ call.attempts = 0
    /\ call.throttles = 0
    /\ call.result = prev.result
C7_SecondCallIdentical == SecondOfTwoCalls => ServedWithoutNetwork

\* C7 (amended): the second call returns the result of the first without a
\* network attempt or a throttling wait when the first call returned without
\* a network attempt (from the cache or a pre-check), or caching is enabled
\* and the first call returned a result parsed from a network response.
C7_SecondCallIdenticalWhenCached ==
    (/\ SecondOfTwoCalls
     /\ \/ prev.attempts = 0
        \/ vlm.cache_enabled /\ prev.source = "network") => ServedWithoutNetwork
C7_Witness ==
    /\ SecondOfTwoCalls
    /\ prev.source = "network"
    /\ prev.attempts = 2
    /\ prev.result.confidence = Some(100)
    /\ call.source = "cache"
    /\ call.result = prev.result

\* C9: within one compare call a further network attempt follows only an
\* HTTP 429 or a URL/timeout error, there are never more than max_retries + 1
\* attempts, the wait before retry k is 2^(k-1) seconds, and a transport error
\* on the last allowed attempt ends the call with the "request failed" result
\* carrying that error, match false and confidence 0.0.
TransientError(outcome) ==
    \/ outcome.t = "http" /\ outcome.code = 429
    \/ outcome.t \in {"urlerror", "timeout"}
C9_BoundedRetries ==
    /\ call.attempts <= vlm.max_retries + 1
    /\ (call.status = "running" /\ call.attempts >= 1) => TransientError(call.outcome)
    /\ Len(call.backoff) =
          IF call.status = "running" \/ call.attempts = 0
          THEN call.attempts ELSE call.attempts - 1
    /\ \A k \in DOMAIN call.backoff : call.backoff[k] = 2 ^ (k - 1)
    /\ (call.attempts = vlm.max_retries + 1 /\ call.outcome.t \in {"http", "urlerror", "timeout"}) =>
          /\ call.status = "returned"
          /\ call.source = "request_failed"
          /\ call.result = ComparisonResult(FALSE,
                              <<"Gemini API request failed", ErrorName(call.outcome)>>, Some(0))
C9_Witness ==
    /\ vlm.max_retries = DefaultMaxRetries
    /\ call.attempts = DefaultMaxRetries + 1
    /\ call.backoff = <<1, 2>>
    /\ call.outcome = HttpError(429)
    /\ call.status = "returned"
    /\ call.source = "request_failed"

\* C10: when a response arrives and its payload cannot be parsed into a
\* result, compare returns at once with the "parsing failed" result (match
\* false, confidence 0.0) and makes no further attempt in that call.
C10_ParseFailureReturns ==
    (call.outcome.t = "body" /\ BodyException(call.outcome.body) # "") =>
        /\ call.status = "returned"
        /\ call.source = "parse_failed"
        /\ IsFailureResult(call.result)
        /\ call.result.reason[1] = "Gemini response parsing failed"

\* C11: compare applies its pre-checks in a fixed order, each returning at once
\* without a network attempt, a cache read or a cache write: an absent
\* report-side image gives "missing report crops" (also when a master-side
\* image is absent), otherwise an absent master-side image gives "missing
\* protocol crops", otherwise a missing credential gives "not configured",
\* even when the cache holds an entry for the images.
PreCheckReason(c) ==
    CASE c.images.report_master.kind = "none" \/ c.images.report_sample.kind = "none" ->
            "Missing report crops for this repeat/difference."
      [] c.images.pq_master.kind = "none" \/ c.images.pq_sample.kind = "none" ->
            "Missing protocol crops for this repeat/difference."
      [] ~vlm.api_key -> "Gemini API key not configured (set GEMINI_API_KEY)."
      [] OTHER -> ""
ShortCircuited(c) ==
    /\ c.status = "returned"
    /\ c.result = ComparisonResult(FALSE, <<PreCheckReason(c)>>, Some(0))
    /\ c.attempts = 0
    /\ c.throttles = 0
    /\ ~c.cache_read
    /\ ~c.cache_written
    /\ c.cache_key = <<>>
C11_PreCheckOrder ==
    /\ (call.status # "idle" /\ PreCheckReason(call) # "") => ShortCircuited(call)
    /\ (call.status # "idle" /\ PreCheckReason(call) = "") =>
          call.source \notin {"missing_report", "missing_protocol", "not_configured"}
C11_Witness ==
    /\ prev.status = "returned"
    /\ prev.images.report_sample.kind = "none"
    /\ prev.images.pq_master.kind = "none"
    /\ prev.source = "missing_report"
    /\ call.source = "not_configured"
    /\ AllReadable(call.images)
    /\ _cache_key(vlm.model_name, call.images) \in DOMAIN vlm.cache
-----------------------------------------------------------------------------
(* Properties of what the cache holds *)

\* the failures of a comparison that got past the pre-checks and the cache
RequestFailureSources == {"no_text", "parse_failed", "request_failed"}
\* this step ends a compare call with a result parsed from a network response
StoresResult ==
    /\ call.status = "running"
    /\ call'.status = "returned"
    /\ call'.source = "network"
    /\ call'.outcome.t = "body"
    /\ BodyException(call'.outcome.body) = ""
    /\ vlm.cache_enabled
\* new holds the entries of old, and beyond them at most this call's result
GainsOnlyResult(old, new) ==
    /\ \A k \in DOMAIN old : k \in DOMAIN new /\ new[k] = old[k]
    /\ new # old =>
          /\ StoresResult
          /\ DOMAIN new = DOMAIN old \cup {call.cache_key}
          /\ new[call.cache_key] = ModelDump(call'.result)
\* a call that ended in a failure has left no entry for its images
FailureNotCached ==
    (/\ call.status = "returned"
     /\ call.source \in RequestFailureSources) => call.cache_key \notin DOMAIN vlm.cache
\* the call after a failed one, with the same images, is not answered from the
\* cache, and goes to the network when the failed one did
ResentAfterFailure ==
    (/\ ncalls >= 2
     /\ prev.status = "returned"
     /\ prev.source \in FailureSources
     /\ call.images = prev.images) =>
        /\ call.source # "cache"
        /\ prev.source \in RequestFailureSources =>
              call.status = "running" \/ call.attempts >= 1

\* C21: the cache, in memory and on disk, only ever gains entries for
\* comparisons whose network response was received and parsed into a result;
\* no failure result is stored, so the call that follows a failed comparison
\* with the same images is sent to the remote judge again and not answered
\* from the cache.
C21_OnlyResultsCached ==
    /\ [](FailureNotCached /\ ResentAfterFailure)
    /\ [][/\ GainsOnlyResult(vlm.cache, vlm'.cache)
          /\ GainsOnlyResult(_load_cache(TRUE, cache_file), _load_cache(TRUE, cache_file'))]_vars
C21_Witness ==
    /\ ncalls >= 2
    /\ vlm.cache_enabled
    /\ prev.source = "request_failed"
    /\ prev.attempts = 2
    /\ call.images = prev.images
    /\ call.source = "network"
    /\ call.cache_key \in DOMAIN vlm.cache
    /\ vlm.cache[call.cache_key] = ModelDump(call.result)
    /\ _load_cache(TRUE, cache_file) = vlm.cache

====
